---- MODULE Spec2Model ----
(***************************************************************************)
(* The from-scratch scalar network of the two notebooks:                   *)
(*   src/unnamed/part_000  (OurDNN.backward walks reversed(self.layers))   *)
(*   src/NNPrimer.ipynb    (OurDNN.backward walks self.layers)             *)
(* Python floats are modelled as fixed-point integers: the integer v       *)
(* stands for the real v / Scale, and every product is rounded to the      *)
(* nearest representable value, as a float product is.                     *)
(* A Python object is a record whose domain is the set of attributes the   *)
(* object has; reading an attribute outside the domain raises.             *)
(***************************************************************************)
EXTENDS Integers, Sequences, FiniteSets, TLC

\* ------------------------------------------------------------------ bounds
Scale == 100
MaxN == 2
MaxCalls == 3
MaxSamples == 2

\* ------------------------------------------------------------------ inputs
Variants == {"part_000", "NNPrimer"}
Targets == {"OurLinear", "OurTanh", "OurMSELoss", "OurDNN", "training"}
\* random.uniform(-1, 1) for a (weight, bias) pair
InitParams == {<<Scale \div 2, -((4 * Scale) \div 10)>>,
               <<-(Scale \div 4), (3 * Scale) \div 10>>}
Xs == {Scale, -(Scale \div 2)}
Gs == {Scale, -(Scale \div 2)}
Ys == {Scale \div 10, Scale}
LRs == {Scale \div 10, Scale \div 2}

\* ------------------------------------------------------------- arithmetic
Abs(a) == IF a < 0 THEN -a ELSE a

Sign(a) == IF a < 0 THEN -1 ELSE 1

\* a / b rounded to the nearest integer, halves away from zero (b > 0)
RoundDiv(a, b) == Sign(a) * ((2 * Abs(a) + b) \div (2 * b))

\* the float product a * b
Mul(a, b) == RoundDiv(a * b, Scale)

\* the float power a ** 2
Sq(a) == Mul(a, a)

\* np.tanh: the odd, increasing rational approximant x(27 + x^2)/(27 + 9x^2),
\* which reaches 1 at x = 3 and is held at +-1 beyond it
NpTanh(x) ==
    IF Abs(x) >= 3 * Scale THEN Sign(x) * Scale
    ELSE RoundDiv(x * (27 * Scale * Scale + x * x), 27 * Scale * Scale + 9 * x * x)

\* ---------------------------------------------------------------- objects
HasAttr(o, a) == a \in DOMAIN o

SetAttr(o, a, v) == [b \in (DOMAIN o) \cup {a} |-> IF b = a THEN v ELSE o[b]]

\* what a method call leaves: the object, whether it raised, the value returned
Return(o, v) == [obj |-> o, raised |-> FALSE, ret |-> v]

Raise(o) == [obj |-> o, raised |-> TRUE, ret |-> 0]

\* --------------------------------------------------------------- OurLinear
NewLinear(p) == [kind |-> "OurLinear", weight |-> p[1], bias |-> p[2]]

LinearForwardAccum(o, x) ==
    LET acc == IF HasAttr(o, "x") THEN o.x + x ELSE x
    IN Return(SetAttr(o, "x", acc), Mul(acc, o.weight) + o.bias)

LinearForwardDecay(o, x) ==
    Return(SetAttr([o EXCEPT !.weight = @ - 1], "x", x), Mul(x, o.weight) + o.bias)

LinearForward(o, x) == Return(SetAttr(o, "x", x), Mul(x, o.weight) + o.bias)

LinearBackwardStale(o, grad_out, rate) ==
    IF ~HasAttr(o, "x") THEN Raise(o)
    ELSE LET grad_w == Mul(grad_out, o.x)
             grad_b == grad_out
             w2 == o.weight - Mul(rate, grad_w)
             b2 == o.bias - Mul(rate, grad_b)
             grad_in == Mul(grad_out, w2)
         IN Return([o EXCEPT !.weight = w2, !.bias = b2], grad_in)

LinearBackwardAscent(o, grad_out, rate) ==
    IF ~HasAttr(o, "x") THEN Raise(o)
    ELSE LET grad_w == Mul(grad_out, o.x)
             grad_b == grad_out
             grad_in == Mul(grad_out, o.weight)
         IN Return([o EXCEPT !.weight = @ + Mul(rate, grad_w),
                             !.bias = @ + Mul(rate, grad_b)], grad_in)

LinearBackwardNoCache(o, grad_out, rate) ==
    LET x == IF HasAttr(o, "x") THEN o.x ELSE 0
        grad_w == Mul(grad_out, x)
        grad_b == grad_out
        grad_in == Mul(grad_out, o.weight)
    IN Return([o EXCEPT !.weight = @ - Mul(rate, grad_w),
                        !.bias = @ - Mul(rate, grad_b)], grad_in)

LinearBackwardDecay(o, grad_out, rate) ==
    IF ~HasAttr(o, "x") THEN Raise(o)
    ELSE LET grad_w == Mul(grad_out, o.x) + o.weight
             grad_b == grad_out
             grad_in == Mul(grad_out, o.weight)
         IN Return([o EXCEPT !.weight = @ - Mul(rate, grad_w),
                             !.bias = @ - Mul(rate, grad_b)], grad_in)

LinearBackward(o, grad_out, rate) ==
    IF ~HasAttr(o, "x") THEN Raise(o)
    ELSE LET grad_w == Mul(grad_out, o.x)
             grad_b == grad_out
             grad_in == Mul(grad_out, o.weight)
         IN Return([o EXCEPT !.weight = @ - Mul(rate, grad_w),
                             !.bias = @ - Mul(rate, grad_b)], grad_in)

\* ----------------------------------------------------------------- OurTanh
NewTanh == [kind |-> "OurTanh"]

TanhForwardKeep(o, x) ==
    IF HasAttr(o, "y") THEN Return(o, NpTanh(x))
    ELSE Return(SetAttr(o, "y", NpTanh(x)), NpTanh(x))

TanhForward(o, x) == Return(SetAttr(o, "y", NpTanh(x)), NpTanh(x))

DelAttr(o, a) == [b \in (DOMAIN o) \ {a} |-> o[b]]

TanhBackwardConsume(o, grad_out, rate) ==
    IF ~HasAttr(o, "y") THEN Raise(o)
    ELSE Return(DelAttr(o, "y"), Mul(grad_out, Scale - Sq(o.y)))

TanhBackwardNoSquare(o, grad_out, rate) ==
    IF ~HasAttr(o, "y") THEN Raise(o)
    ELSE Return(o, Mul(grad_out, Scale - o.y))

TanhBackward(o, grad_out, rate) ==
    IF ~HasAttr(o, "y") THEN Raise(o)
    ELSE Return(o, Mul(grad_out, Scale - Sq(o.y)))

\* -------------------------------------------------------------- OurMSELoss
NewLoss == [kind |-> "OurMSELoss"]

LossForwardAccum(v, o, x, y) ==
    IF v = "part_000"
    THEN Return(SetAttr(o, "z", (IF HasAttr(o, "z") THEN o.z ELSE 0) + (y - x)), Sq(y - x))
    ELSE Return(SetAttr(SetAttr(o, "x", x), "y", (IF HasAttr(o, "y") THEN o.y ELSE 0) + y),
                Sq(y - x))

\* part_000 keeps z = y - x; NNPrimer keeps x and y
LossForward(v, o, x, y) ==
    IF v = "part_000" THEN Return(SetAttr(o, "z", y - x), Sq(y - x))
    ELSE Return(SetAttr(SetAttr(o, "x", x), "y", y), Sq(y - x))

LossBackwardWrtTarget(v, o) ==
    IF v = "part_000"
    THEN IF ~HasAttr(o, "z") THEN Raise(o) ELSE Return(o, 2 * o.z)
    ELSE IF ~HasAttr(o, "y") \/ ~HasAttr(o, "x") THEN Raise(o)
         ELSE Return(o, 2 * (o.y - o.x))

LossBackward(v, o) ==
    IF v = "part_000"
    THEN IF ~HasAttr(o, "z") THEN Raise(o) ELSE Return(o, (-2) * o.z)
    ELSE IF ~HasAttr(o, "y") \/ ~HasAttr(o, "x") THEN Raise(o)
         ELSE Return(o, (-2) * (o.y - o.x))

\* ------------------------------------------------------------------ OurDNN
\* OurDNN(n).layers: n times an OurLinear followed by an OurTanh
RECURSIVE NewDNN(_)
NewDNN(ps) ==
    IF ps = <<>> THEN <<>>
    ELSE <<NewLinear(Head(ps)), NewTanh>> \o NewDNN(Tail(ps))

LayerForward(o, x) ==
    IF o.kind = "OurLinear" THEN LinearForward(o, x) ELSE TanhForward(o, x)

LayerBackward(o, grad_out, rate) ==
    IF o.kind = "OurLinear" THEN LinearBackward(o, grad_out, rate)
    ELSE TanhBackward(o, grad_out, rate)

Range(n) == [i \in 1..n |-> i]

Reversed(s) == [i \in 1..Len(s) |-> s[Len(s) + 1 - i]]

\* the call made on one layer by a network traversal
Call(i, op, arg, r) == [layer |-> i, op |-> op, arg |-> arg, raised |-> r.raised, ret |-> r.ret]

\* for layer in self.layers: x = layer.forward(x)
RECURSIVE ForwardLoop(_, _, _, _)
ForwardLoop(ls, order, x, calls) ==
    IF order = <<>> THEN [layers |-> ls, raised |-> FALSE, ret |-> x, calls |-> calls]
    ELSE LET i == Head(order)
             r == LayerForward(ls[i], x)
         IN ForwardLoop([ls EXCEPT ![i] = r.obj], Tail(order), r.ret,
                        Append(calls, Call(i, "forward", x, r)))

DNNForward(ls, x) == ForwardLoop(ls, Range(Len(ls)), x, <<>>)

\* for layer in <order>: grad_out = layer.backward(grad_out, lr)
RECURSIVE BackwardLoop(_, _, _, _, _)
BackwardLoop(ls, order, grad_out, rate, calls) ==
    IF order = <<>> THEN [layers |-> ls, raised |-> FALSE, ret |-> grad_out, calls |-> calls]
    ELSE LET i == Head(order)
             r == LayerBackward(ls[i], grad_out, rate)
             cs == Append(calls, Call(i, "backward", grad_out, r))
         IN IF r.raised THEN [layers |-> ls, raised |-> TRUE, ret |-> 0, calls |-> cs]
            ELSE BackwardLoop([ls EXCEPT ![i] = r.obj], Tail(order), r.ret, rate, cs)

\* the order OurDNN.backward walks the layers in
BackwardOrder(v, n) == IF v = "part_000" THEN Reversed(Range(n)) ELSE Range(n)

DNNBackward(v, ls, grad_out, rate) ==
    BackwardLoop(ls, BackwardOrder(v, Len(ls)), grad_out, rate, <<>>)

\* ------------------------------------------------------------------- PyDNN
\* PyDNN(n): n times an nn.Linear(1, 1) followed by an nn.Tanh; the i-th
\* nn.Linear starts from the i-th pair torch's generator draws
TorchInit(i) == <<(Scale \div 10) * (i + 1), -((Scale \div 10) * i)>>

NewPyDNN(n) ==
    [j \in 1..(2 * n) |->
        IF j % 2 = 1
        THEN [kind |-> "nn.Linear", weight |-> TorchInit((j + 1) \div 2)[1],
              bias |-> TorchInit((j + 1) \div 2)[2]]
        ELSE [kind |-> "nn.Tanh"]]

\* -------------------------------------------------- get_params, copy_params
IsLinear(o) == o.kind \in {"OurLinear", "nn.Linear"}

\* the parameter snapshot: the weights and the biases of the Linear layers, in
\* network order
GetParams(ls) ==
    LET lins == SelectSeq(ls, IsLinear)
    IN [ws |-> [i \in 1..Len(lins) |-> lins[i].weight],
        bs |-> [i \in 1..Len(lins) |-> lins[i].bias]]

SetParams(o, w, b) == SetAttr(SetAttr(o, "weight", w), "bias", b)

\* part_000: for i in range(len(py_dnn.layers)), copying where py_dnn.layers[i]
\* is an nn.Linear; our_dnn.layers[i] past the end raises IndexError
RECURSIVE CopyByLayer(_, _, _)
CopyByLayer(py, our, i) ==
    IF i > Len(py) THEN [layers |-> our, raised |-> FALSE]
    ELSE IF ~IsLinear(py[i]) THEN CopyByLayer(py, our, i + 1)
    ELSE IF i > Len(our) THEN [layers |-> our, raised |-> TRUE]
    ELSE CopyByLayer(py, [our EXCEPT ![i] = SetParams(@, py[i].weight, py[i].bias)], i + 1)

\* NNPrimer: for i in range(len(py_params['ws'])), assigning to
\* our_dnn.layers[i] whatever layer that is
RECURSIVE CopyByParam(_, _, _)
CopyByParam(ps, our, i) ==
    IF i > Len(ps.ws) THEN [layers |-> our, raised |-> FALSE]
    ELSE IF i > Len(our) THEN [layers |-> our, raised |-> TRUE]
    ELSE CopyByParam(ps, [our EXCEPT ![i] = SetParams(@, ps.ws[i], ps.bs[i])], i + 1)

CopyParamsChecked(v, py, our) ==
    IF Len(py) # Len(our) THEN [layers |-> our, raised |-> TRUE]
    ELSE IF v = "part_000" THEN CopyByLayer(py, our, 1)
    ELSE CopyByParam(GetParams(py), our, 1)

CopyParams(v, py, our) ==
    IF v = "part_000" THEN CopyByLayer(py, our, 1)
    ELSE CopyByParam(GetParams(py), our, 1)

\* -------------------------------------------------------------------- state
VARIABLES
    variant,    \* which notebook's definitions are loaded
    target,     \* the object this run builds and drives: the instances share no state
    lr,         \* the learning rate
    layers,     \* our_dnn.layers
    py_layers,  \* py_dnn.layers
    lin,        \* an OurLinear on its own
    tnh,        \* an OurTanh on its own
    our_loss,   \* an OurMSELoss
    pending,    \* our_dnn ran forward and has not run backward since
    last,       \* the last call: what was called, with what, and what came of it
    pre,        \* the objects as they were when the last call was made
    fwd_calls,  \* the layer calls of our_dnn's most recent forward
    ncalls,     \* calls made so far
    log,        \* every call made so far, in order
    our_params, \* our_params, the snapshot get_params(our_dnn) returned last
    data,       \* the samples (x, y) the dataloader yields, in order
    loop,       \* the training cells: where they stand, and out, loss, grad
    start,      \* both parameter snapshots as training starts
    py_hist,    \* after each PyDNN step: its loss and parameter snapshot
    our_hist    \* after each OurDNN step: its loss and parameter snapshot

vars == <<variant, target, lr, layers, py_layers, lin, tnh, our_loss, pending,
          last, pre, fwd_calls, ncalls, log, log, our_params, data, loop, start, py_hist,
          our_hist>>

training == <<data, loop, start, py_hist, our_hist>>

Snapshot ==
    [layers |-> layers, lin |-> lin, tnh |-> tnh, our_loss |-> our_loss, pending |-> pending]

NoCall == [op |-> "none", arg |-> 0, arg2 |-> 0, raised |-> FALSE, ret |-> 0, calls |-> <<>>]

Done(op, arg, arg2, r, calls) ==
    [op |-> op, arg |-> arg, arg2 |-> arg2, raised |-> r.raised, ret |-> r.ret, calls |-> calls]

\* an object the run does not build
NotBuilt == [kind |-> "none"]

\* all sequences over S of length n
RECURSIVE Seqs(_, _)
Seqs(S, n) == IF n = 0 THEN {<<>>} ELSE {<<x>> \o s : x \in S, s \in Seqs(S, n - 1)}

Init ==
    /\ variant \in Variants
    /\ target \in Targets
    /\ lr \in LRs
    /\ \E n \in 0..MaxN, m \in 0..MaxN :
          /\ target \in {"OurLinear", "OurTanh", "OurMSELoss"} => n = 0 /\ m = 0
          /\ target = "training" => n = m
          /\ py_layers = NewPyDNN(m)
          /\ \E ps \in Seqs(InitParams, n) : layers = NewDNN(ps)
    /\ \E p \in InitParams :
          lin = IF target = "OurLinear" THEN NewLinear(p) ELSE NotBuilt
    /\ tnh = IF target = "OurTanh" THEN NewTanh ELSE NotBuilt
    /\ our_loss = IF target \in {"OurMSELoss", "training"} THEN NewLoss ELSE NotBuilt
    /\ pending = FALSE
    /\ last = NoCall
    /\ pre = Snapshot
    /\ fwd_calls = <<>>
    /\ ncalls = 0
    /\ log = <<>>
    /\ our_params = [ws |-> <<>>, bs |-> <<>>]
    /\ data = <<>>
    /\ loop = [pc |-> IF target = "training" THEN "dataset" ELSE "off",
               out |-> 0, loss |-> 0, grad |-> 0]
    /\ start = [our |-> GetParams(layers), py |-> GetParams(py_layers)]
    /\ py_hist = <<>>
    /\ our_hist = <<>>

Logged(l) ==
    /\ ncalls' = ncalls + 1
    /\ pre' = Snapshot
    /\ last' = l
    /\ log' = Append(log, [op |-> l.op, arg |-> l.arg, arg2 |-> l.arg2,
                           raised |-> l.raised, ret |-> l.ret])
    /\ UNCHANGED <<variant, target, lr>>

Called(l) ==
    /\ ncalls < MaxCalls
    /\ Logged(l)
    /\ UNCHANGED <<py_layers, training>>

\* ---------------------------------------------------- calls on one instance
OurLinearForward ==
    /\ target = "OurLinear"
    /\ \E x \in Xs :
          LET r == LinearForward(lin, x)
          IN /\ lin' = r.obj
             /\ Called(Done("OurLinear.forward", x, 0, r, <<>>))
    /\ UNCHANGED <<layers, tnh, our_loss, pending, fwd_calls, our_params>>

OurLinearBackward ==
    /\ target = "OurLinear"
    /\ \E g \in Gs :
          LET r == LinearBackward(lin, g, lr)
          IN /\ lin' = r.obj
             /\ Called(Done("OurLinear.backward", g, lr, r, <<>>))
    /\ UNCHANGED <<layers, tnh, our_loss, pending, fwd_calls, our_params>>

OurTanhForward ==
    /\ target = "OurTanh"
    /\ \E x \in Xs :
          LET r == TanhForward(tnh, x)
          IN /\ tnh' = r.obj
             /\ Called(Done("OurTanh.forward", x, 0, r, <<>>))
    /\ UNCHANGED <<layers, lin, our_loss, pending, fwd_calls, our_params>>

OurTanhBackward ==
    /\ target = "OurTanh"
    /\ \E g \in Gs :
          LET r == TanhBackward(tnh, g, lr)
          IN /\ tnh' = r.obj
             /\ Called(Done("OurTanh.backward", g, lr, r, <<>>))
    /\ UNCHANGED <<layers, lin, our_loss, pending, fwd_calls, our_params>>

OurMSELossForward ==
    /\ target = "OurMSELoss"
    /\ \E x \in Xs, y \in Ys :
          LET r == LossForward(variant, our_loss, x, y)
          IN /\ our_loss' = r.obj
             /\ Called(Done("OurMSELoss.forward", x, y, r, <<>>))
    /\ UNCHANGED <<layers, lin, tnh, pending, fwd_calls, our_params>>

OurMSELossBackward ==
    /\ target = "OurMSELoss"
    /\ LET r == LossBackward(variant, our_loss)
       IN /\ our_loss' = r.obj
          /\ Called(Done("OurMSELoss.backward", 0, 0, r, <<>>))
    /\ UNCHANGED <<layers, lin, tnh, pending, fwd_calls, our_params>>

\* --------------------------------------------------------- calls on our_dnn
\* copy_params(py_dnn, our_dnn): the set-up step, before any forward or backward
CopyParamsCall ==
    /\ target = "OurDNN"
    /\ ncalls = 0
    /\ LET r == CopyParams(variant, py_layers, layers)
       IN /\ layers' = r.layers
          /\ Called(Done("copy_params", 0, 0, [raised |-> r.raised, ret |-> 0], <<>>))
    /\ UNCHANGED <<lin, tnh, our_loss, pending, fwd_calls, our_params>>

\* our_params = get_params(our_dnn): read once the parameters are copied and
\* after each backward
GetParamsCall ==
    /\ target = "OurDNN"
    /\ last.op \in {"copy_params", "OurDNN.backward"}
    /\ our_params' = GetParams(layers)
    /\ Called(Done("get_params", 0, 0, [raised |-> FALSE, ret |-> 0], <<>>))
    /\ UNCHANGED <<layers, lin, tnh, our_loss, pending, fwd_calls>>

OurDNNForward ==
    /\ target = "OurDNN"
    /\ \E x \in Xs :
          LET r == DNNForward(layers, x)
          IN /\ layers' = r.layers
             /\ fwd_calls' = r.calls
             /\ Called(Done("OurDNN.forward", x, 0, r, r.calls))
    /\ pending' = TRUE
    /\ UNCHANGED <<lin, tnh, our_loss, our_params>>

OurDNNBackward ==
    /\ target = "OurDNN"
    /\ \E g \in Gs :
          LET r == DNNBackward(variant, layers, g, lr)
          IN /\ layers' = r.layers
             /\ Called(Done("OurDNN.backward", g, lr, r, r.calls))
    /\ pending' = FALSE
    /\ UNCHANGED <<lin, tnh, our_loss, fwd_calls, our_params>>

\* ------------------------------------------------------ the training cells
\* the dataset: MaxSamples pairs, iterated in order (shuffle=False, batch_size=1)
DrawSample ==
    /\ loop.pc = "dataset"
    /\ \E x \in Xs, y \in Ys : data' = Append(data, <<x, y>>)
    /\ loop' = [loop EXCEPT !.pc = IF Len(data') = MaxSamples THEN "copy_params" ELSE @]
    /\ UNCHANGED <<variant, target, lr, layers, py_layers, lin, tnh, our_loss, pending,
                   last, pre, fwd_calls, ncalls, log, start, py_hist, our_hist, our_params>>

\* copy_params(py_dnn, our_dnn); an exception ends the run of the notebook
TrainCopyParams ==
    /\ loop.pc = "copy_params"
    /\ LET r == CopyParams(variant, py_layers, layers)
       IN /\ layers' = r.layers
          /\ Logged(Done("copy_params", 0, 0, [raised |-> r.raised, ret |-> 0], <<>>))
          /\ loop' = [loop EXCEPT !.pc = IF r.raised THEN "failed" ELSE "py_loop"]
          /\ start' = [our |-> GetParams(r.layers), py |-> GetParams(py_layers)]
    /\ UNCHANGED <<py_layers, lin, tnh, our_loss, pending, fwd_calls, data, py_hist, our_hist, our_params>>

\* out = py_dnn(x): the output of every layer, in network order
RECURSIVE PyOutputs(_, _, _)
PyOutputs(py, x, outs) ==
    IF Len(outs) = Len(py) THEN outs
    ELSE LET o == py[Len(outs) + 1]
             y == IF o.kind = "nn.Linear" THEN Mul(x, o.weight) + o.bias ELSE NpTanh(x)
         IN PyOutputs(py, y, Append(outs, y))

\* loss.backward(): d loss / d (output of layer i), for loss = (out - y)^2
RECURSIVE PyGradOut(_, _, _, _)
PyGradOut(py, outs, y, i) ==
    IF i = Len(py) THEN 2 * ((IF i = 0 THEN 0 ELSE outs[i]) - y)
    ELSE LET g == PyGradOut(py, outs, y, i + 1)
             o == py[i + 1]
         IN IF o.kind = "nn.Linear" THEN Mul(g, o.weight)
            ELSE Mul(g, Scale - Sq(outs[i + 1]))

\* zero_grad, forward, MSELoss, loss.backward, then optim.SGD(lr).step(): every
\* parameter moves by -lr times its gradient, all gradients taken beforehand
PySGDStep(py, x, y, rate) ==
    LET outs == PyOutputs(py, x, <<>>)
        input(i) == IF i = 1 THEN x ELSE outs[i - 1]
        grad(i) == PyGradOut(py, outs, y, i)
    IN [loss |-> Sq(outs[Len(py)] - y),
        layers |-> [i \in 1..Len(py) |->
                       IF py[i].kind = "nn.Linear"
                       THEN [py[i] EXCEPT !.weight = @ - Mul(rate, Mul(grad(i), input(i))),
                                          !.bias = @ - Mul(rate, grad(i))]
                       ELSE py[i]]]

\* the PyDNN loop comes first; optim.SGD refuses a model without parameters.
\* The OurDNN cell then opens with our_params = get_params(our_dnn)
PyTrainStep ==
    /\ loop.pc = "py_loop"
    /\ Len(py_layers) > 0
    /\ Len(py_hist) < Len(data)
    /\ LET xy == data[Len(py_hist) + 1]
           r == PySGDStep(py_layers, xy[1], xy[2], lr)
       IN /\ py_layers' = r.layers
          /\ py_hist' = Append(py_hist, [loss |-> r.loss, params |-> GetParams(r.layers)])
    /\ UNCHANGED <<variant, target, lr, layers, lin, tnh, our_loss, pending, last, pre,
                   fwd_calls, ncalls, log, data, loop, start, our_hist, our_params>>

PyTrainEnd ==
    /\ loop.pc = "py_loop"
    /\ Len(py_layers) = 0 \/ Len(py_hist) = Len(data)
    /\ loop' = [loop EXCEPT !.pc = "forward"]
    /\ our_params' = GetParams(layers)
    /\ UNCHANGED <<variant, target, lr, layers, py_layers, lin, tnh, our_loss, pending,
                   last, pre, fwd_calls, ncalls, log, data, start, py_hist, our_hist>>

\* out = our_dnn.forward(x.item())
TrainForward ==
    /\ loop.pc = "forward"
    /\ Len(our_hist) < Len(data)
    /\ LET x == data[Len(our_hist) + 1][1]
           r == DNNForward(layers, x)
       IN /\ layers' = r.layers
          /\ fwd_calls' = r.calls
          /\ Logged(Done("OurDNN.forward", x, 0, r, r.calls))
          /\ loop' = [loop EXCEPT !.pc = "loss_forward", !.out = r.ret]
    /\ pending' = TRUE
    /\ UNCHANGED <<py_layers, lin, tnh, our_loss, data, start, py_hist, our_hist, our_params>>

\* loss = our_loss.forward(out, y.item())
TrainLossForward ==
    /\ loop.pc = "loss_forward"
    /\ LET y == data[Len(our_hist) + 1][2]
           r == LossForward(variant, our_loss, loop.out, y)
       IN /\ our_loss' = r.obj
          /\ Logged(Done("OurMSELoss.forward", loop.out, y, r, <<>>))
          /\ loop' = [loop EXCEPT !.pc = "loss_backward", !.loss = r.ret]
    /\ UNCHANGED <<layers, py_layers, lin, tnh, pending, fwd_calls, data, start,
                   py_hist, our_hist, our_params>>

\* grad = our_loss.backward()
TrainLossBackward ==
    /\ loop.pc = "loss_backward"
    /\ LET r == LossBackward(variant, our_loss)
       IN /\ our_loss' = r.obj
          /\ Logged(Done("OurMSELoss.backward", 0, 0, r, <<>>))
          /\ loop' = [loop EXCEPT !.pc = IF r.raised THEN "failed" ELSE "backward",
                                  !.grad = r.ret]
    /\ UNCHANGED <<layers, py_layers, lin, tnh, pending, fwd_calls, data, start,
                   py_hist, our_hist, our_params>>

\* our_dnn.backward(grad, lr); our_params = get_params(our_dnn)
TrainBackward ==
    /\ loop.pc = "backward"
    /\ LET r == DNNBackward(variant, layers, loop.grad, lr)
       IN /\ layers' = r.layers
          /\ Logged(Done("OurDNN.backward", loop.grad, lr, r, r.calls))
          /\ loop' = [loop EXCEPT !.pc = IF r.raised THEN "failed" ELSE "forward"]
          /\ our_hist' = IF r.raised THEN our_hist
                         ELSE Append(our_hist, [loss |-> loop.loss,
                                                params |-> GetParams(r.layers)])
          /\ our_params' = IF r.raised THEN our_params ELSE GetParams(r.layers)
    /\ pending' = FALSE
    /\ UNCHANGED <<py_layers, lin, tnh, our_loss, fwd_calls, data, start, py_hist>>

Next ==
    \/ OurLinearForward
    \/ OurLinearBackward
    \/ OurTanhForward
    \/ OurTanhBackward
    \/ OurMSELossForward
    \/ OurMSELossBackward
    \/ CopyParamsCall
    \/ GetParamsCall
    \/ OurDNNForward
    \/ OurDNNBackward
    \/ DrawSample
    \/ TrainCopyParams
    \/ PyTrainStep
    \/ PyTrainEnd
    \/ TrainForward
    \/ TrainLossForward
    \/ TrainLossBackward
    \/ TrainBackward

Spec == Init /\ [][Next]_vars

\* ------------------------------------------------------------------- claims
Backwards == {"OurLinear.backward", "OurTanh.backward", "OurMSELoss.backward"}

LayerIds(calls) == [i \in 1..Len(calls) |-> calls[i].layer]

\* C1: on a network of 2 or more layers, OurDNN.backward calls the layers'
\* backward in the reverse of the order the preceding OurDNN.forward called
\* their forward, handing each layer's return value to the layer before it.
C1_BackwardReversesForward ==
    (last.op = "OurDNN.backward" /\ Len(layers) >= 2 /\ fwd_calls # <<>>) =>
        /\ LayerIds(last.calls) = Reversed(LayerIds(fwd_calls))
        /\ last.calls[1].arg = last.arg
        /\ \A i \in 2..Len(last.calls) :
              /\ last.calls[i].arg = last.calls[i - 1].ret
              /\ last.calls[i].layer = last.calls[i - 1].layer - 1

\* C2: from identical initial parameters, the same samples in the same order
\* and the same lr, every step of the OurDNN loop ends with the loss and the
\* parameter snapshot the plain-SGD PyDNN step ends with, for n >= 1.
C2_Parity ==
    (target = "training" /\ Len(layers) >= 2 /\ start.our = start.py) =>
        \A k \in 1..Len(our_hist) : k <= Len(py_hist) /\ our_hist[k] = py_hist[k]

\* C3: OurLinear.backward returns grad_out times the weight as it was before
\* the call, on a layer of its own and on every Linear layer of a network.
C3_GradInUsesOldWeight ==
    /\ (last.op = "OurLinear.backward" /\ ~last.raised) =>
          last.ret = Mul(last.arg, pre.lin.weight)
    /\ last.op = "OurDNN.backward" =>
          \A i \in 1..Len(last.calls) :
             LET c == last.calls[i]
             IN (pre.layers[c.layer].kind = "OurLinear" /\ ~c.raised) =>
                    c.ret = Mul(c.arg, pre.layers[c.layer].weight)

C3_Witness ==
    /\ last.op = "OurLinear.backward"
    /\ ~last.raised
    /\ lin.weight # pre.lin.weight
    /\ last.ret # Mul(last.arg, lin.weight)

\* C4: forward caches its input x and changes no parameter; the backward after
\* it leaves weight = weight_old - lr*grad_out*x and bias = bias_old -
\* lr*grad_out (weight 0.5, bias -0.4, x 1.0, lr 0.1, grad_out 1.0 give 0.4
\* and -0.5).
C4_Example ==
    /\ pre.lin.weight = Scale \div 2
    /\ pre.lin.bias = -((4 * Scale) \div 10)
    /\ pre.lin.x = Scale
    /\ lr = Scale \div 10
    /\ last.arg = Scale

C4_LinearUpdate ==
    /\ last.op = "OurLinear.forward" =>
          /\ lin.x = last.arg
          /\ lin.weight = pre.lin.weight
          /\ lin.bias = pre.lin.bias
    /\ (last.op = "OurLinear.backward" /\ ~last.raised) =>
          /\ lin.weight = pre.lin.weight - Mul(lr, Mul(last.arg, pre.lin.x))
          /\ lin.bias = pre.lin.bias - Mul(lr, last.arg)
          /\ lin.x = pre.lin.x
          /\ C4_Example =>
                /\ lin.weight = (4 * Scale) \div 10
                /\ lin.bias = -(Scale \div 2)

C4_Witness ==
    /\ last.op = "OurLinear.backward"
    /\ ~last.raised
    /\ C4_Example
    /\ lin.weight = (4 * Scale) \div 10

\* C5: backward as the first call ever made on an OurLinear, an OurTanh or an
\* OurMSELoss raises: it returns nothing and leaves the object as it was.
C5_FreshBackwardRaises ==
    (ncalls = 1 /\ last.op \in Backwards) => (last.raised /\ Snapshot = pre)

C5_Witness ==
    /\ ncalls = 1
    /\ last.op = "OurLinear.backward"
    /\ last.raised
    /\ lin = pre.lin

C7_Params ==
    IF target = "OurLinear" THEN [ws |-> <<lin.weight>>, bs |-> <<lin.bias>>]
    ELSE GetParams(layers)

C7_ForwardRepeats ==
    [][\A f \in {"OurLinear.forward", "OurTanh.forward", "OurDNN.forward"} :
          (last'.op = f /\ ncalls' = ncalls + 1) =>
              /\ C7_Params' = C7_Params
              /\ (last.op = f /\ last.arg = last'.arg) => last'.ret = last.ret]_vars

C7_Witness ==
    /\ last.op = "OurDNN.forward"
    /\ Len(layers) >= 2
    /\ HasAttr(pre.layers[1], "x")
    /\ pre.layers[1].x = last.arg
    /\ pre.pending

\* C8: OurMSELoss.forward(prediction, target) returns (target - prediction)^2,
\* and the backward that follows returns -2*(target - prediction) for that
\* forward's arguments: positive when the prediction is above the target.
C8_Forward ==
    last.op = "OurMSELoss.forward" => (~last.raised /\ last.ret = Sq(last.arg2 - last.arg))

C8_Backward ==
    (last.op = "OurMSELoss.forward" /\ last'.op = "OurMSELoss.backward" /\ ncalls' = ncalls + 1) =>
        /\ ~last'.raised
        /\ last'.ret = (-2) * (last.arg2 - last.arg)
        /\ last.arg > last.arg2 => last'.ret > 0

C8_LossAndGradient == [](C8_Forward) /\ [][C8_Backward]_vars

C8_Witness ==
    /\ last.op = "OurMSELoss.backward"
    /\ ~last.raised
    /\ last.ret > 0

\* C9: after copy_params between two networks built with the same number of
\* layer pairs, the scratch network's parameter snapshot equals the reference
\* network's.
C9_CopyAligns ==
    (last.op = "copy_params" /\ py_hist = <<>> /\ Len(layers) = Len(py_layers)) =>
        (~last.raised /\ GetParams(layers) = GetParams(py_layers))

\* C10 as stated: copy_params between networks of different layer counts raises.
C10_MismatchRaises ==
    (last.op = "copy_params" /\ Len(layers) # Len(py_layers)) => last.raised

\* the reference's Linear layers that sit at an index the scratch network has
C10_Shared(i) == i \in 1..Len(layers) /\ i \in 1..Len(py_layers) /\ IsLinear(py_layers[i])

\* C10 amended: copy_params checks no layer count. On networks of different
\* sizes it raises only when its loop indexes past the end of the scratch
\* network's layer list (part_000: the reference has more layers than the
\* scratch network; NNPrimer: the reference has more Linear layers than the
\* scratch network has layers), and the values assigned before that stay
\* assigned; otherwise, and always when the scratch network is the longer one,
\* it returns normally and the two parameter snapshots differ.
C10_MismatchRaisesOnlyPastTheEnd ==
    (last.op = "copy_params" /\ Len(layers) # Len(py_layers)) =>
        /\ last.raised <=>
              IF variant = "part_000" THEN Len(py_layers) > Len(layers)
              ELSE Len(GetParams(py_layers).ws) > Len(layers)
        /\ Len(layers) > Len(py_layers) => ~last.raised
        /\ ~last.raised => GetParams(layers) # GetParams(py_layers)
        /\ (last.raised /\ variant = "part_000") =>
              \A i \in 1..Len(layers) :
                 C10_Shared(i) => layers[i].weight = py_layers[i].weight
        /\ (last.raised /\ variant = "NNPrimer") =>
              \A i \in 1..Len(layers) : layers[i].weight = GetParams(py_layers).ws[i]

C10_Witness ==
    /\ last.op = "copy_params"
    /\ Len(layers) > Len(py_layers)
    /\ Len(py_layers) > 0
    /\ ~last.raised
    /\ layers # pre.layers

\* the backward call a network traversal made on layer i, if it made one
C11_OwnCall(calls, i) == {j \in 1..Len(calls) : calls[j].layer = i /\ ~calls[j].raised}

\* C11: after construction and copy_params, a Linear layer's weight and bias
\* change only in that layer's own backward call, and by that call's update:
\* no forward, no OurTanh.backward, no loss call, no get_params and no other
\* layer's backward changes them.
C11_Step ==
    /\ (target = "OurLinear" /\ <<lin.weight, lin.bias>>' # <<lin.weight, lin.bias>>) =>
          (last'.op = "OurLinear.backward" /\ ncalls' = ncalls + 1)
    /\ \A i \in 1..Len(layers) :
          (layers[i].kind = "OurLinear" /\ last'.op # "copy_params"
             /\ <<layers[i].weight, layers[i].bias>>' # <<layers[i].weight, layers[i].bias>>) =>
              /\ last'.op = "OurDNN.backward"
              /\ ncalls' = ncalls + 1
              /\ \E j \in C11_OwnCall(last'.calls, i) :
                    /\ layers'[i].weight =
                          layers[i].weight - Mul(lr, Mul(last'.calls[j].arg, layers[i].x))
                    /\ layers'[i].bias = layers[i].bias - Mul(lr, last'.calls[j].arg)

C11_OnlyOwnBackwardWrites == [][C11_Step]_vars

C11_Witness ==
    /\ last.op = "OurDNN.backward"
    /\ Len(layers) >= 4
    /\ layers[1].weight # pre.layers[1].weight
    /\ layers[3].weight # pre.layers[3].weight

\* one training step on a network freshly built from a parameter snapshot
C12_Pairs(ps) == [i \in 1..Len(ps.ws) |-> <<ps.ws[i], ps.bs[i]>>]

C12_FreshStep(ps, xy) ==
    LET f == DNNForward(NewDNN(C12_Pairs(ps)), xy[1])
        l == LossForward(variant, NewLoss, f.ret, xy[2])
        g == LossBackward(variant, l.obj)
        b == DNNBackward(variant, f.layers, g.ret, lr)
    IN [loss |-> l.ret, params |-> GetParams(b.layers)]

\* C12: the training loop takes the samples in order and makes, for each,
\* exactly the calls OurDNN.forward(input), OurMSELoss.forward(prediction,
\* target), OurMSELoss.backward(), OurDNN.backward(grad, lr), in this order;
\* the loss and the parameters after step k are those one step gives from the
\* parameters before step k, sample k and lr alone.
C12_TrainingLoopOrder ==
    target = "training" =>
        /\ \A j \in 1..Len(log) :
              LET k == ((j - 2) \div 4) + 1
                  c == log[j]
              IN /\ j = 1 => c.op = "copy_params"
                 /\ (j > 1 /\ (j - 2) % 4 = 0) =>
                       c.op = "OurDNN.forward" /\ c.arg = data[k][1]
                 /\ (j > 1 /\ (j - 2) % 4 = 1) =>
                       /\ c.op = "OurMSELoss.forward"
                       /\ c.arg = log[j - 1].ret
                       /\ c.arg2 = data[k][2]
                 /\ (j > 1 /\ (j - 2) % 4 = 2) => c.op = "OurMSELoss.backward"
                 /\ (j > 1 /\ (j - 2) % 4 = 3) =>
                       /\ c.op = "OurDNN.backward"
                       /\ c.arg = log[j - 1].ret
                       /\ c.arg2 = lr
        /\ Len(log) <= 1 + 4 * Len(data)
        /\ loop.pc # "failed" => Len(our_hist) = (IF log = <<>> THEN 0 ELSE (Len(log) - 1) \div 4)
        /\ \A k \in 1..Len(our_hist) :
              our_hist[k] =
                 C12_FreshStep(IF k = 1 THEN start.our ELSE our_hist[k - 1].params, data[k])

C12_Witness ==
    /\ target = "training"
    /\ Len(our_hist) = 2
    /\ our_hist[1].loss # 0
    /\ our_hist[2].params # our_hist[1].params
    /\ data[1] # data[2]

\* the local derivative of layer i at the activations of the last forward
C13_Local(i) ==
    IF pre.layers[i].kind = "OurLinear" THEN pre.layers[i].weight
    ELSE Scale - Sq(fwd_calls[i].ret)

RECURSIVE C13_Thread(_, _, _)
C13_Thread(calls, j, g) ==
    IF j > Len(calls) THEN g
    ELSE C13_Thread(calls, j + 1, Mul(g, C13_Local(calls[j].layer)))

\* C13: after a forward, OurDNN.backward returns grad_out multiplied by the
\* local derivative of every layer, each taken once: the pre-update weight of
\* a Linear layer, 1 - y^2 of a Tanh layer with y its output in that forward;
\* with n = 0 it returns grad_out itself.
C13_BackwardReturnsInputGradient ==
    (last.op = "OurDNN.backward" /\ (fwd_calls # <<>> \/ Len(layers) = 0)) =>
        /\ ~last.raised
        /\ Len(last.calls) = Len(layers)
        /\ {last.calls[j].layer : j \in 1..Len(last.calls)} = 1..Len(layers)
        /\ last.ret = C13_Thread(last.calls, 1, last.arg)
        /\ Len(layers) = 0 => last.ret = last.arg

C13_Witness ==
    /\ last.op = "OurDNN.backward"
    /\ Len(layers) >= 4
    /\ pre.pending
    /\ last.ret # 0
    /\ last.ret # last.arg
    /\ layers[3].weight # pre.layers[3].weight

\* the three latest calls are forward, forward, backward on the same object
C14_Case(cls) ==
    /\ Len(log) >= 3
    /\ log[Len(log) - 2].op = cls \o ".forward"
    /\ log[Len(log) - 1].op = cls \o ".forward"
    /\ log[Len(log)].op = cls \o ".backward"

C14_First == log[Len(log) - 2]

C14_Second == log[Len(log) - 1]

\* C14: after forward(x1), forward(x2) and no backward in between, backward
\* works from x2 alone: Linear moves its weight by lr*grad_out*x2, Tanh
\* returns grad_out*(1 - tanh(x2)^2), the loss returns -2 times the residual
\* of the second call; also for the first two layers of a network.
C14_ForwardOverwritesCache ==
    /\ C14_Case("OurLinear") =>
          /\ ~last.raised
          /\ lin.weight = pre.lin.weight - Mul(lr, Mul(last.arg, C14_Second.arg))
    /\ C14_Case("OurTanh") =>
          /\ ~last.raised
          /\ last.ret = Mul(last.arg, Scale - Sq(NpTanh(C14_Second.arg)))
    /\ C14_Case("OurMSELoss") =>
          /\ ~last.raised
          /\ last.ret = (-2) * (C14_Second.arg2 - C14_Second.arg)
    /\ (C14_Case("OurDNN") /\ Len(layers) >= 2) =>
          /\ ~last.raised
          /\ \A j \in 1..Len(last.calls) :
                LET c == last.calls[j]
                    w == pre.layers[1]
                IN /\ c.layer = 1 =>
                         layers[1].weight = w.weight - Mul(lr, Mul(c.arg, C14_Second.arg))
                   /\ c.layer = 2 =>
                         c.ret = Mul(c.arg, Scale - Sq(NpTanh(Mul(C14_Second.arg, w.weight)
                                                               + w.bias)))

C14_Witness ==
    /\ C14_Case("OurTanh")
    /\ C14_First.arg # C14_Second.arg
    /\ ~last.raised
    /\ last.ret # Mul(last.arg, Scale - Sq(NpTanh(C14_First.arg)))

\* the loss forward call j steps back had prediction = target
C15_ZeroResidual(j) ==
    /\ Len(log) > j
    /\ log[Len(log) - j].op = "OurMSELoss.forward"
    /\ log[Len(log) - j].arg = log[Len(log) - j].arg2

\* C15: when the prediction equals the target, OurMSELoss.forward returns 0,
\* the OurMSELoss.backward after it returns 0, and the OurDNN.backward of that
\* training step leaves every weight and bias as it was.
C15_ZeroResidualFixedPoint ==
    /\ C15_ZeroResidual(0) => (~last.raised /\ last.ret = 0)
    /\ (C15_ZeroResidual(1) /\ last.op = "OurMSELoss.backward") =>
          (~last.raised /\ last.ret = 0)
    /\ (C15_ZeroResidual(2) /\ log[Len(log) - 1].op = "OurMSELoss.backward"
          /\ last.op = "OurDNN.backward") =>
          /\ ~last.raised
          /\ last.arg = 0
          /\ GetParams(layers) = GetParams(pre.layers)

C15_Witness ==
    /\ C15_ZeroResidual(2)
    /\ last.op = "OurDNN.backward"
    /\ Len(layers) >= 2
    /\ layers[1].x # 0
    /\ GetParams(layers) = GetParams(pre.layers)

====
